---- MODULE Spec2Model ----
(***************************************************************************)
(* Model of src/samples/robustEssentialSpherical/sphericalCam.hpp:        *)
(* EightPointRelativePoseSolver, AngularError, EssentialKernel_spherical  *)
(* and TriangulateDLT.                                                     *)
(*                                                                         *)
(* Numbers are integers.  A matrix (Mat) is a sequence of columns, each a  *)
(* sequence of entries; element (r, c) of the code, counted from 0, is     *)
(* m[c + 1][r + 1].  A Mat3 (a model) and the system A are sequences of    *)
(* rows.  Null vectors are carried in an integer scale in which their      *)
(* singular values are even, so the halving of line 98 is exact.           *)
(***************************************************************************)
EXTENDS Integers, Sequences, FiniteSets, TLC

VARIABLES
    NDEBUG,     \* TRUE when the build compiles the assert()s out
    _x1, _x2,   \* the kernel's stored correspondence matrices
    models,     \* the caller's output model list
    before,     \* that list as it was when the last call was made
    op,         \* the last call made
    status,     \* how the last call ended
    sample,     \* the sample index list given to the last fit
    argX1, argX2, \* the matrices the last call handed to solve
    A,          \* the linear system the last solve built
    E,          \* the reshaped null vector of the last solve
    usv,        \* the decomposition the last solve used (<<>> when skipped)
    projected,  \* TRUE when the last solve ran the block of lines 93 to 100
    thr,        \* the threads calling the kernel: position, arguments, locals
    tri         \* the last TriangulateDLT call: arguments, design, results

vars == <<NDEBUG, _x1, _x2, models, before, op, status, sample, argX1, argX2, A, E,
          usv, projected, thr, tri>>

callVars == <<models, before, op, status, sample, argX1, argX2, A, E, usv, projected>>

----------------------------------------------------------------------------
(* Bounds of the model *)

MaxExtra == 1      \* column counts range over MinSamples -/+ MaxExtra
MaxShift == 1      \* first index of a sample index list
MaxModels == 2     \* the output list is not grown beyond this length

(* Program constants *)

MinSamples == 8
MaxNbModels == 1

----------------------------------------------------------------------------
(* Input data *)

(* Three sequences of correspondences <<x1[i], x2[i]>>, each satisfying    *)
(* x2[i]^T * E * x1[i] = 0 for one matrix E: of singular values (4, 2, 0), *)
(* (2, 2, 0) and (4, 2, 2) respectively.                                   *)
Scenes ==
    << << <<<<-2, 1, 1>>, <<1, 1, -1>>>>, <<<<1, 0, -1>>, <<1, 0, -2>>>>,
          <<<<2, 1, 1>>, <<-2, 2, 0>>>>, <<<<-2, 0, -1>>, <<-1, 0, 1>>>>,
          <<<<-1, 1, 1>>, <<-1, -2, 0>>>>, <<<<-2, 1, 0>>, <<-1, -1, -1>>>>,
          <<<<0, 2, 1>>, <<0, 1, 2>>>>, <<<<2, 1, 0>>, <<1, -1, 1>>>>,
          <<<<0, 1, 2>>, <<0, 2, -2>>>>, <<<<0, 2, -1>>, <<0, -2, 2>>>>,
          <<<<2, -1, -1>>, <<1, 1, 1>>>> >>,
       << <<<<0, -2, 1>>, <<0, 2, -2>>>>, <<<<1, 2, -1>>, <<1, -2, 1>>>>,
          <<<<-1, 0, -2>>, <<2, 0, -2>>>>, <<<<-2, 1, -1>>, <<-2, -1, 1>>>>,
          <<<<0, 1, -1>>, <<0, 1, 2>>>>, <<<<-2, -1, 1>>, <<2, -1, 1>>>>,
          <<<<2, 1, -1>>, <<-2, 1, -1>>>>, <<<<2, 0, -2>>, <<-1, 0, -1>>>>,
          <<<<0, -2, 2>>, <<0, -1, 2>>>>, <<<<0, -1, 1>>, <<0, -2, 2>>>>,
          <<<<1, -1, -2>>, <<-1, -1, 1>>>> >>,
       << <<<<-2, -2, 0>>, <<-1, 1, 2>>>>, <<<<1, 0, 2>>, <<-1, 1, -1>>>>,
          <<<<0, -1, 1>>, <<-1, -1, -1>>>>, <<<<0, -2, 1>>, <<-1, -2, -1>>>>,
          <<<<-1, -1, 2>>, <<-1, 0, 2>>>>, <<<<0, 2, -2>>, <<-2, 1, 1>>>>,
          <<<<-2, 1, 1>>, <<0, -1, 1>>>>, <<<<-2, 0, 2>>, <<-1, -2, 1>>>>,
          <<<<-2, 1, -1>>, <<0, -2, -2>>>>, <<<<2, 0, -2>>, <<1, 2, 0>>>>,
          <<<<-2, -1, -1>>, <<0, 2, -2>>>> >> >>

(* the rows x cols matrix of the first cols directions of view v (1 or 2)  *)
(* of a scene, cut to their first rows entries                             *)
MkMat(scene, v, rows, cols) ==
    [c \in 1..cols |-> SubSeq(Scenes[scene][c][v], 1, rows)]

ColCounts == (MinSamples - MaxExtra)..(MinSamples + MaxExtra)

Rows(m) == Len(m[1])
Cols(m) == Len(m)
El(m, r, c) == m[c + 1][r + 1]

----------------------------------------------------------------------------
(* 3x3 matrices *)

I3 == 1..3

MatMul3(X, Y) ==
    [r \in I3 |-> [c \in I3 |->
        X[r][1] * Y[1][c] + X[r][2] * Y[2][c] + X[r][3] * Y[3][c]]]

Transpose3(X) == [r \in I3 |-> [c \in I3 |-> X[c][r]]]

AsDiagonal(d) == [r \in I3 |-> [c \in I3 |-> IF r = c THEN d[r] ELSE 0]]

----------------------------------------------------------------------------
(* The linear algebra the solver calls.  The null vectors and the          *)
(* decompositions range over a finite family: the products U*diag(d)*V^T   *)
(* of permutation matrices U, V and the singular value triples SingVals.   *)

Perms3 == {p \in [I3 -> I3] : \A i, j \in I3 : p[i] = p[j] => i = j}

Orth == {[r \in I3 |-> [c \in I3 |-> IF p[r] = c THEN 1 ELSE 0]] : p \in Perms3}

SingVals == {<<4, 2, 0>>, <<2, 2, 0>>, <<4, 2, 2>>}

Decomps == [U : Orth, d : SingVals, V : Orth]

Compose(s) == MatMul3(MatMul3(s.U, AsDiagonal(s.d)), Transpose3(s.V))

Flatten(M) == <<M[1][1], M[1][2], M[1][3], M[2][1], M[2][2], M[2][3],
                M[3][1], M[3][2], M[3][3]>>

Vec9s == {Flatten(Compose(s)) : s \in Decomps}

Dot9(u, v) ==
    u[1] * v[1] + u[2] * v[2] + u[3] * v[3] + u[4] * v[4] + u[5] * v[5]
    + u[6] * v[6] + u[7] * v[7] + u[8] * v[8] + u[9] * v[9]

RECURSIVE SumSq(_, _, _)
SumSq(M, v, i) ==
    IF i = 0 THEN 0 ELSE Dot9(M[i], v) * Dot9(M[i], v) + SumSq(M, v, i - 1)

(* Nullspace(&A, &e): the right singular vector of A's smallest singular   *)
(* value, i.e. a minimiser of |A e|^2 / |e|^2; rows of zeros added to make *)
(* A square leave |A e| as it is.  The set of all minimisers of the family *)
(* (the sign and the choice among equal singular values are not fixed).    *)
Nullspace(M) ==
    LET q == {<<SumSq(M, v, Len(M)), Dot9(v, v), v>> : v \in Vec9s}
    IN  {c[3] : c \in {a \in q : \A b \in q : a[1] * b[2] <= b[1] * a[2]}}

(* Map<RMat3>(e.data()): the row-major 3x3 view of the 9-vector *)
MapRMat3(e) == <<<<e[1], e[2], e[3]>>, <<e[4], e[5], e[6]>>, <<e[7], e[8], e[9]>>>>

(* Eigen::JacobiSVD<Mat3>(E, ComputeFullU | ComputeFullV): the             *)
(* decompositions E = U * diag(d) * V^T with d in decreasing order.        *)
JacobiSVD(M) == {s \in Decomps : Compose(s) = M}

----------------------------------------------------------------------------
(* EightPointRelativePoseSolver *)

getMinimumNbRequiredSamples == MinSamples

getMaximumNbModels == MaxNbModels

(* EncodeRow with the two views exchanged: the transposed layout *)
EncodeRowTransposed(x1, x2, i) ==
    << El(x1, 0, i) * El(x2, 0, i),
       El(x1, 0, i) * El(x2, 1, i),
       El(x1, 0, i) * El(x2, 2, i),
       El(x1, 1, i) * El(x2, 0, i),
       El(x1, 1, i) * El(x2, 1, i),
       El(x1, 1, i) * El(x2, 2, i),
       El(x1, 2, i) * El(x2, 0, i),
       El(x1, 2, i) * El(x2, 1, i),
       El(x1, 2, i) * El(x2, 2, i) >>

(* One pass of the loop body of encodeEpipolarEquation: row i of A *)
EncodeRow(x1, x2, i) ==
    << El(x2, 0, i) * El(x1, 0, i),
       El(x2, 0, i) * El(x1, 1, i),
       El(x2, 0, i) * El(x1, 2, i),
       El(x2, 1, i) * El(x1, 0, i),
       El(x2, 1, i) * El(x1, 1, i),
       El(x2, 1, i) * El(x1, 2, i),
       El(x2, 2, i) * El(x1, 0, i),
       El(x2, 2, i) * El(x1, 1, i),
       El(x2, 2, i) * El(x1, 2, i) >>

(* encodeEpipolarEquation(x1, x2, &A): rows 0 .. x1.cols()-1 of A are      *)
(* written, the others are left as they were.                              *)
encodeEpipolarEquation(x1, x2, A0) ==
    [i \in 1..Len(A0) |-> IF i - 1 < Cols(x1) THEN EncodeRow(x1, x2, i - 1) ELSE A0[i]]

(* MatX9 A(x1.cols(), 9): allocated, no row written yet (<<>>) *)
NewMatX9(n) == [i \in 1..n |-> <<>>]

(* the four assert()s of solve *)
SolveAsserts(x1, x2) ==
    /\ 3 = Rows(x1)
    /\ MinSamples <= Cols(x1)
    /\ Rows(x1) = Rows(x2)
    /\ Cols(x1) = Cols(x2)

(* every element encodeEpipolarEquation reads exists *)
ReadsDefined(x1, x2) ==
    /\ Rows(x1) >= 3
    /\ Rows(x2) >= 3
    /\ Cols(x2) >= Cols(x1)

(* what the reads of rows 0..2 and columns 0..n-1 of m give: the element  *)
(* where m has one, the value g where it has none                          *)
AsRead(m, n, g) ==
    [c \in 1..n |-> [r \in 1..3 |->
        IF c <= Cols(m) /\ r <= Rows(m) THEN m[c][r] ELSE g]]

(* values a read outside a matrix may give *)
Garbage == {1, 2}

(* the correction applied to the minimal sample too *)
CorrectionAlways(n) == n >= MinSamples

(* the correction applied one column too late *)
CorrectionLate(n) == n > MinSamples + 1

(* if (x1.cols() > 8) *)
CorrectionApplies(n) == n > MinSamples

(* d << (a+b)/2., (a+b)/2., 0.0; E = U * d.asDiagonal() * V^T *)
ClosestEssential(s) ==
    LET a == s.d[1]
        b == s.d[2]
        d == <<(a + b) \div 2, (a + b) \div 2, 0>>
    IN  MatMul3(MatMul3(s.U, AsDiagonal(d)), Transpose3(s.V))

(* the list emptied before the model is added *)
ClearThenPush(ms, M) == <<M>>

(* models.emplace_back(E) *)
EmplaceBack(ms, M) == Append(ms, M)

(* the weights dropped and the unweighted system solved instead *)
SolveIgnoringWeights(ms, x1, x2, weights) ==
    LET A1 == encodeEpipolarEquation(AsRead(x1, Cols(x1), 1), AsRead(x2, Cols(x1), 1),
                                     NewMatX9(Cols(x1)))
    IN  [status |-> "returned",
         models |-> EmplaceBack(ms, MapRMat3(CHOOSE e \in Nullspace(A1) : TRUE))]

(* The weighted overload: throws std::logic_error, touches nothing *)
SolveWeightedResult(ms, x1, x2, weights) ==
    [status |-> "logic_error", models |-> ms]

----------------------------------------------------------------------------
(* The calls a single caller makes on the solver and the kernel *)

Shapes == {<<3, 3, 0>>, <<2, 2, 0>>, <<3, 2, 0>>, <<3, 3, 1>>}

(* the (x1, x2) pairs a caller passes: rows of x1, rows of x2 and the      *)
(* columns x2 lacks are drawn from Shapes                                  *)
Inputs ==
    {<<MkMat(sc, 1, 3, n), MkMat(sc, 2, 3, n)>> :
        sc \in 1..Len(Scenes), n \in ColCounts}
    \cup {<<MkMat(1, 1, sh[1], MinSamples), MkMat(1, 2, sh[2], MinSamples - sh[3])>> :
        sh \in Shapes}

WeightedInputs == {in \in Inputs : Cols(in[1]) = MinSamples /\ Rows(in[1]) = Rows(in[2])}

KernelInputs ==
    {<<MkMat(sc, 1, 3, n), MkMat(sc, 2, 3, n)>> :
        sc \in {1, Len(Scenes)}, n \in ColCounts}

(* sample index lists: runs of consecutive indices of the stored columns *)
SampleSets(n) ==
    {[k \in 1..m |-> (o + k - 1) % n] :
        m \in ((MinSamples - MaxExtra)..MinSamples) \cup {n}, o \in 0..MaxShift}

WeightSets == {<<>>, <<1, 1, 1, 1, 1, 1, 1, 1>>}

Alive == status \notin {"assert_abort", "undefined"}

NoSolve ==
    /\ A' = <<>>
    /\ E' = <<>>
    /\ usv' = <<>>
    /\ projected' = FALSE

(* lines 87 to 101 of solve, on the system A1 built from n columns *)
SolveRest(A1, n) ==
    \E e \in Nullspace(A1) :
        LET E0 == MapRMat3(e)
        IN  /\ A' = A1
            /\ E' = E0
            /\ status' = "returned"
            /\ IF CorrectionApplies(n)
               THEN \E USV \in JacobiSVD(E0) :
                      /\ usv' = USV
                      /\ projected' = TRUE
                      /\ models' = EmplaceBack(models, ClosestEssential(USV))
               ELSE /\ usv' = <<>>
                    /\ projected' = FALSE
                    /\ models' = EmplaceBack(models, E0)

(* the body of the unweighted solve, lines 77 to 102 *)
SolveBody(x1, x2) ==
    /\ argX1' = x1
    /\ argX2' = x2
    /\ IF ~NDEBUG /\ ~SolveAsserts(x1, x2)
       THEN \* an assert fails: abort()
            /\ status' = "assert_abort"
            /\ models' = models
            /\ NoSolve
       ELSE IF ReadsDefined(x1, x2)
       THEN SolveRest(encodeEpipolarEquation(x1, x2, NewMatX9(Cols(x1))), Cols(x1))
       ELSE \* a read outside x1 or x2 is undefined behaviour: the call
            \* crashes, or goes on with whatever value g the reads gave
            \/ /\ status' = "undefined"
               /\ models' = models
               /\ NoSolve
            \/ \E g \in Garbage :
                  SolveRest(encodeEpipolarEquation(AsRead(x1, Cols(x1), g),
                                                   AsRead(x2, Cols(x1), g),
                                                   NewMatX9(Cols(x1))), Cols(x1))

(* EightPointRelativePoseSolver::solve(x1, x2, models) *)
Solve ==
    /\ Alive
    /\ Len(models) < MaxModels
    /\ \E in \in Inputs :
          /\ op' = "solve"
          /\ sample' = <<>>
          /\ before' = models
          /\ SolveBody(in[1], in[2])
    /\ UNCHANGED <<NDEBUG, _x1, _x2, thr, tri>>

(* EightPointRelativePoseSolver::solve(x1, x2, models, weights) *)
SolveWeighted ==
    /\ Alive
    /\ \E in \in WeightedInputs, w \in WeightSets :
          LET r == SolveWeightedResult(models, in[1], in[2], w)
          IN  /\ op' = "solve_weighted"
              /\ sample' = <<>>
              /\ before' = models
              /\ argX1' = in[1]
              /\ argX2' = in[2]
              /\ status' = r.status
              /\ models' = r.models
              /\ NoSolve
    /\ UNCHANGED <<NDEBUG, _x1, _x2, thr, tri>>

(* the four assert()s of fit, on the stored matrices *)
FitAsserts ==
    /\ 3 = Rows(_x1)
    /\ getMinimumNbRequiredSamples <= Cols(_x1)
    /\ Rows(_x1) = Rows(_x2)
    /\ Cols(_x1) = Cols(_x2)

(* EssentialKernel_spherical::fit(samples, models) *)
Fit ==
    /\ Alive
    /\ Len(models) < MaxModels
    /\ \E smp \in SampleSets(Cols(_x1)) :
          /\ op' = "fit"
          /\ sample' = smp
          /\ before' = models
          /\ IF ~NDEBUG /\ ~FitAsserts
             THEN /\ status' = "assert_abort"
                  /\ models' = models
                  /\ argX1' = <<>>
                  /\ argX2' = <<>>
                  /\ NoSolve
             ELSE SolveBody(_x1, _x2)
    /\ UNCHANGED <<NDEBUG, _x1, _x2, thr, tri>>

NoCall ==
    /\ models = <<>>
    /\ before = <<>>
    /\ op = "none"
    /\ status = "none"
    /\ sample = <<>>
    /\ argX1 = <<>>
    /\ argX2 = <<>>
    /\ A = <<>>
    /\ E = <<>>
    /\ usv = <<>>
    /\ projected = FALSE

(* a caller of the solver alone: no kernel is constructed *)
Init ==
    /\ NDEBUG \in BOOLEAN
    /\ _x1 = <<>>
    /\ _x2 = <<>>
    /\ NoCall
    /\ thr = <<>>
    /\ tri = [overload |-> "none"]

Next == Solve \/ SolveWeighted

Spec == Init /\ [][Next]_vars

(* EssentialKernel_spherical(x1, x2), then the calls of fit by one caller *)
InitKernel ==
    /\ NDEBUG \in BOOLEAN
    /\ \E k \in KernelInputs : _x1 = k[1] /\ _x2 = k[2]
    /\ NoCall
    /\ thr = <<>>
    /\ tri = [overload |-> "none"]

NextKernel == Fit

SpecKernel == InitKernel /\ [][NextKernel]_vars

----------------------------------------------------------------------------
(* AngularError and the kernel's residual *)

MatVec3(M, x) ==
    [r \in I3 |-> M[r][1] * x[1] + M[r][2] * x[2] + M[r][3] * x[3]]

Dot3(u, v) == u[1] * v[1] + u[2] * v[2] + u[3] * v[3]

(* AngularError::error(model, x1, x2): with v = model * x1 the value is    *)
(* |asin(s)| for s = (x2 . v/|v|) / (|x2| * 1).  The angle, in [0, pi/2],  *)
(* grows with s^2; it is carried as the fraction s^2 = <<num, den>>, and   *)
(* as <<0, 0>> where the division is 0/0 (a NaN).                          *)
AngularErrorOf(M, x1, x2) ==
    LET v == MatVec3(M, x1)
        num == Dot3(x2, v) * Dot3(x2, v)
        den == Dot3(x2, x2) * Dot3(v, v)
    IN  IF den = 0 THEN <<0, 0>> ELSE <<num, den>>

----------------------------------------------------------------------------
(* Several threads calling fit and the residual on one kernel, each with   *)
(* its own output list: one call per thread, in steps.                     *)

NumThreads == 2

Threads == 1..NumThreads

Idle ==
    [pc |-> "idle", op |-> "none", sample |-> <<>>, model |-> <<>>, index |-> 0,
     A |-> <<>>, E |-> <<>>, M |-> <<>>, c1 |-> <<>>, c2 |-> <<>>,
     out |-> <<>>, result |-> <<>>]

ConcSamples(n) == {S \in SampleSets(n) : Len(S) = MinSamples /\ S[1] \in {0, MaxShift}}

ErrModels == {MapRMat3(e) : e \in {v \in Vec9s : v[2] = 4 /\ v[4] = 2 /\ v[9] = 2}}

NoAbort == \A t \in Threads : thr[t].pc # "aborted"

(* the sampled columns gathered to the front of the stored matrix itself *)
GatherInPlace(m, S) ==
    [k \in 1..Len(m) |-> IF k <= Len(S) THEN m[S[k] + 1] ELSE m[k]]

(* what the stored matrix m is after fit was entered with the sample S:    *)
(* fit is const and hands _x1 and _x2 to solve as const references         *)
StoredAfterFit(m, S) == m

(* fit entered: its four assert()s *)
FitEnter(t) ==
    /\ NoAbort
    /\ thr[t].pc = "idle"
    /\ \E S \in ConcSamples(Cols(_x1)) :
          thr' = [thr EXCEPT ![t] =
                    [@ EXCEPT !.op = "fit", !.sample = S,
                              !.pc = IF ~NDEBUG /\ ~FitAsserts THEN "aborted" ELSE "encode"]]
    /\ UNCHANGED <<NDEBUG, _x1, _x2, callVars, tri>>

(* solve entered with the stored matrices: A allocated and filled *)
FitEncode(t) ==
    /\ NoAbort
    /\ thr[t].pc = "encode"
    /\ IF ~NDEBUG /\ ~SolveAsserts(_x1, _x2)
       THEN thr' = [thr EXCEPT ![t].pc = "aborted"]
       ELSE thr' = [thr EXCEPT ![t] =
                [@ EXCEPT !.pc = "nullspace",
                          !.A = encodeEpipolarEquation(_x1, _x2, NewMatX9(Cols(_x1)))]]
    /\ _x1' = StoredAfterFit(_x1, thr[t].sample)
    /\ _x2' = StoredAfterFit(_x2, thr[t].sample)
    /\ UNCHANGED <<NDEBUG, callVars, tri>>

(* the null vector, and the correction when there are more than 8 rows *)
FitNullspace(t) ==
    /\ NoAbort
    /\ thr[t].pc = "nullspace"
    /\ \E e \in Nullspace(thr[t].A) :
          LET E0 == MapRMat3(e)
          IN  IF CorrectionApplies(Len(thr[t].A))
              THEN \E USV \in JacobiSVD(E0) :
                      thr' = [thr EXCEPT ![t] =
                                [@ EXCEPT !.pc = "emplace", !.E = E0,
                                          !.M = ClosestEssential(USV)]]
              ELSE thr' = [thr EXCEPT ![t] =
                             [@ EXCEPT !.pc = "emplace", !.E = E0, !.M = E0]]
    /\ UNCHANGED <<NDEBUG, _x1, _x2, callVars, tri>>

(* models.emplace_back(E) on the thread's own list, and the return *)
FitEmplace(t) ==
    /\ NoAbort
    /\ thr[t].pc = "emplace"
    /\ thr' = [thr EXCEPT ![t] =
                 [@ EXCEPT !.pc = "done", !.out = EmplaceBack(@, thr[t].M)]]
    /\ UNCHANGED <<NDEBUG, _x1, _x2, callVars, tri>>

(* the kernel's residual entered with a model and a point index *)
ErrorEnter(t) ==
    /\ NoAbort
    /\ thr[t].pc = "idle"
    /\ \E M \in ErrModels, i \in {0, Cols(_x1) - 1} :
          thr' = [thr EXCEPT ![t] =
                    [@ EXCEPT !.op = "error", !.model = M, !.index = i, !.pc = "read"]]
    /\ UNCHANGED <<NDEBUG, _x1, _x2, callVars, tri>>

(* the stored directions at that index are read *)
ErrorRead(t) ==
    /\ NoAbort
    /\ thr[t].pc = "read"
    /\ thr' = [thr EXCEPT ![t] =
                 [@ EXCEPT !.pc = "compute", !.c1 = _x1[thr[t].index + 1],
                           !.c2 = _x2[thr[t].index + 1]]]
    /\ UNCHANGED <<NDEBUG, _x1, _x2, callVars, tri>>

(* AngularError::error on them, and the return *)
ErrorCompute(t) ==
    /\ NoAbort
    /\ thr[t].pc = "compute"
    /\ thr' = [thr EXCEPT ![t] =
                 [@ EXCEPT !.pc = "done",
                           !.result = AngularErrorOf(thr[t].model, thr[t].c1, thr[t].c2)]]
    /\ UNCHANGED <<NDEBUG, _x1, _x2, callVars, tri>>

ConcKernels ==
    {<<MkMat(1, 1, 3, n), MkMat(1, 2, 3, n)>> :
        n \in {MinSamples - MaxExtra, MinSamples, MinSamples + MaxExtra}}

(* the kernel is constructed over one scene; no thread has called yet *)
InitConc ==
    /\ NDEBUG \in BOOLEAN
    /\ \E k \in ConcKernels : _x1 = k[1] /\ _x2 = k[2]
    /\ NoCall
    /\ thr = [t \in Threads |-> Idle]
    /\ tri = [overload |-> "none"]

NextConc ==
    \E t \in Threads :
        \/ FitEnter(t)
        \/ FitEncode(t)
        \/ FitNullspace(t)
        \/ FitEmplace(t)
        \/ ErrorEnter(t)
        \/ ErrorRead(t)
        \/ ErrorCompute(t)

SpecConc == InitConc /\ [][NextConc]_vars

----------------------------------------------------------------------------
(* TriangulateDLT.  A Mat34 is a sequence of 3 rows of 4 entries, the      *)
(* design a sequence of rows of 4 entries.                                 *)

(* the projection matrix [U | t] *)
Proj(U, t) == [r \in I3 |-> <<U[r][1], U[r][2], U[r][3], t[r]>>]

Cameras ==
    {Proj(U, t) : U \in {M \in Orth : M[1][1] = 1 \/ M[1][2] = 1},
                  t \in {<<0, 0, 0>>, <<1, 0, 0>>}}

Points == {<<1, 1, 2, 1>>, <<0, 1, 1, 1>>, <<2, 0, 1, 1>>, <<1, 2, 0, 2>>, <<1, 0, 1, 0>>}

Noise == {<<0, 0, 0>>, <<0, 0, 1>>}

Dot4(u, v) == u[1] * v[1] + u[2] * v[2] + u[3] * v[3] + u[4] * v[4]

(* the direction P * X + n *)
Project(P, X, n) == [r \in I3 |-> Dot4(P[r], X) + n[r]]

RECURSIVE SumSq4(_, _, _)
SumSq4(M, v, i) ==
    IF i = 0 THEN 0 ELSE Dot4(M[i], v) * Dot4(M[i], v) + SumSq4(M, v, i - 1)

(* Nullspace(&design, X_homogeneous): the minimisers of |design * X|^2 /   *)
(* |X|^2 among Points                                                      *)
Nullspace4(M) ==
    LET q == {<<SumSq4(M, v, Len(M)), Dot4(v, v), v>> : v \in Points}
    IN  {c[3] : c \in {a \in q : \A b \in q : a[1] * b[2] <= b[1] * a[2]}}

(* the design with the third row of each constraint left out *)
DesignTwoRowsPerView(P1, x1, P2, x2) ==
    << [i \in 1..4 |-> -x1[3] * P1[2][i] + x1[2] * P1[3][i]],
       [i \in 1..4 |->  x1[3] * P1[1][i] - x1[1] * P1[3][i]],
       [i \in 1..4 |-> -x2[3] * P2[2][i] + x2[2] * P2[3][i]],
       [i \in 1..4 |->  x2[3] * P2[1][i] - x2[1] * P2[3][i]] >>

(* Mat design(6,4) after the loop of lines 168 to 176 *)
Design(P1, x1, P2, x2) ==
    << [i \in 1..4 |-> -x1[3] * P1[2][i] + x1[2] * P1[3][i]],
       [i \in 1..4 |->  x1[3] * P1[1][i] - x1[1] * P1[3][i]],
       [i \in 1..4 |-> -x1[2] * P1[1][i] + x1[1] * P1[2][i]],
       [i \in 1..4 |-> -x2[3] * P2[2][i] + x2[2] * P2[3][i]],
       [i \in 1..4 |->  x2[3] * P2[1][i] - x2[1] * P2[3][i]],
       [i \in 1..4 |-> -x2[2] * P2[1][i] + x2[1] * P2[2][i]] >>

(* homogeneousToEuclidean: the first three coordinates over the fourth,    *)
(* carried as numerators and denominator; a zero denominator is a          *)
(* division by zero (infinite or NaN coordinates)                          *)
homogeneousToEuclidean(X) == [num |-> <<X[1], X[2], X[3]>>, den |-> X[4]]

TriangulateInputs ==
    {<<P1, Project(P1, X, <<0, 0, 0>>), P2, Project(P2, X, n)>> :
        P1 \in Cameras, P2 \in Cameras, X \in Points, n \in Noise}

(* TriangulateDLT(P1, x1, P2, x2, Vec4 *X_homogeneous) *)
TriangulateDLT ==
    /\ tri.overload = "none"
    /\ LET design == Design(tri.P1, tri.x1, tri.P2, tri.x2)
       IN  \E X \in Nullspace4(design) :
             tri' = [tri EXCEPT !.overload = "homogeneous", !.design = design,
                                !.X_homogeneous = X]
    /\ UNCHANGED <<NDEBUG, _x1, _x2, callVars, thr>>

(* TriangulateDLT(P1, x1, P2, x2, Vec3 *X_euclidean) *)
TriangulateDLTEuclidean ==
    /\ tri.overload = "none"
    /\ LET design == Design(tri.P1, tri.x1, tri.P2, tri.x2)
       IN  \E X \in Nullspace4(design) :
             tri' = [tri EXCEPT !.overload = "euclidean", !.design = design,
                                !.X_homogeneous = X,
                                !.X_euclidean = homogeneousToEuclidean(X)]
    /\ UNCHANGED <<NDEBUG, _x1, _x2, callVars, thr>>

(* the arguments of one call are drawn; the call is still to be made *)
InitTri ==
    /\ NDEBUG \in BOOLEAN
    /\ _x1 = <<>>
    /\ _x2 = <<>>
    /\ NoCall
    /\ thr = <<>>
    /\ \E in \in TriangulateInputs :
          tri = [overload |-> "none", P1 |-> in[1], x1 |-> in[2], P2 |-> in[3],
                 x2 |-> in[4], design |-> <<>>, X_homogeneous |-> <<>>,
                 X_euclidean |-> <<>>]

NextTri == TriangulateDLT \/ TriangulateDLTEuclidean

SpecTri == InitTri /\ [][NextTri]_vars

----------------------------------------------------------------------------
(* Properties of the solver, checked under Spec *)

Last(ms) == ms[Len(ms)]

SolveReturned == op = "solve" /\ status = "returned"

(* x2^T * M * x1 for two 3-vectors and a 3x3 matrix *)
Bilinear(y, M, x) ==
    y[1] * (M[1][1] * x[1] + M[1][2] * x[2] + M[1][3] * x[3])
    + y[2] * (M[2][1] * x[1] + M[2][2] * x[2] + M[2][3] * x[3])
    + y[3] * (M[3][1] * x[1] + M[3][2] * x[2] + M[3][3] * x[3])

(* M = U * diag(k, k, 0) * V^T: two equal nonzero singular values, a zero third *)
IsEssential(M) ==
    \E U \in Orth, V \in Orth :
        \E k \in {M[r][c] : r \in I3, c \in I3} \ {0} :
            M = MatMul3(MatMul3(U, AsDiagonal(<<k, k, 0>>)), Transpose3(V))

(* C2, as stated: when an unweighted solve on aligned 3xN inputs, N >= 8,  *)
(* returns, the output list holds exactly one model.                       *)
C2_ExactlyOneModel ==
    (SolveReturned /\ SolveAsserts(argX1, argX2))
        => Len(models) = 1 /\ Len(models) <= getMaximumNbModels

(* C2, amended: such a call adds exactly one model at the end of the list  *)
(* and keeps what the list held; a list that was empty then holds one      *)
(* model, which is getMaximumNbModels.                                     *)
C2_AppendsOneModel ==
    (SolveReturned /\ SolveAsserts(argX1, argX2))
        => /\ Len(models) = Len(before) + 1
           /\ SubSeq(models, 1, Len(before)) = before
           /\ (before = <<>> => Len(models) = getMaximumNbModels)

C2_Witness ==
    /\ SolveReturned
    /\ SolveAsserts(argX1, argX2)
    /\ Cols(argX1) > MinSamples
    /\ Len(before) = 1
    /\ Len(models) = 2

(* C3: every call of the weighted overload ends in the logic_error and     *)
(* leaves the output list as it was.                                       *)
C3_WeightedAlwaysThrows ==
    op = "solve_weighted" => status = "logic_error" /\ models = before

C3_Witness ==
    /\ op = "solve_weighted"
    /\ status = "logic_error"
    /\ before # <<>>
    /\ ~SolveAsserts(argX1, argX2)

(* C4: an unweighted solve whose inputs violate the precondition fails at  *)
(* once: no linear system is built, no model is added, it does not return. *)
C4_PreconditionHardFails ==
    (op = "solve" /\ ~SolveAsserts(argX1, argX2))
        => status # "returned" /\ A = <<>> /\ models = before

(* C6, as stated: every model the unweighted solve emits for N >= 8 went   *)
(* through the step enforcing the essential-matrix structure.              *)
C6_EveryModelEnforced ==
    (SolveReturned /\ SolveAsserts(argX1, argX2)) => projected

(* C6, amended: every model the unweighted solve emits for N > 8 went      *)
(* through that step and has two equal nonzero singular values and a zero  *)
(* third one; for N = 8 the model is emitted without the step.             *)
C6_ModelEnforcedAboveEight ==
    (SolveReturned /\ SolveAsserts(argX1, argX2))
        => IF Cols(argX1) > MinSamples
           THEN projected /\ IsEssential(Last(models))
           ELSE ~projected

C6_Witness ==
    /\ SolveReturned
    /\ Cols(argX1) > MinSamples
    /\ projected
    /\ usv.d = <<4, 2, 2>>
    /\ ~IsEssential(E)

(* C8: the correction is applied exactly when N > 8; then the model is     *)
(* U*diag((d0+d1)/2, (d0+d1)/2, 0)*V^T for a decomposition                 *)
(* E = U*diag(d0,d1,d2)*V^T of the reshaped null vector E; for N = 8 the   *)
(* model is E itself.                                                      *)
C8_CorrectionIffAboveEight ==
    (SolveReturned /\ SolveAsserts(argX1, argX2))
        => /\ E \in {MapRMat3(e) : e \in Nullspace(A)}
           /\ projected <=> Cols(argX1) > MinSamples
           /\ IF Cols(argX1) > MinSamples
              THEN \E s \in Decomps :
                      /\ E = MatMul3(MatMul3(s.U, AsDiagonal(s.d)), Transpose3(s.V))
                      /\ \A r \in I3, c \in I3 :
                            2 * Last(models)[r][c] =
                                (s.d[1] + s.d[2]) * (s.U[r][1] * s.V[c][1] + s.U[r][2] * s.V[c][2])
              ELSE Last(models) = E

C8_Witness ==
    /\ SolveReturned
    /\ SolveAsserts(argX1, argX2)
    /\ Cols(argX1) > MinSamples
    /\ Last(models) # E
    /\ Len(before) = 0

(* C10: row i of A holds A(i, 3r+c) = x2(r,i) * x1(c,i), so that for every *)
(* 9-vector e with row-major reshape M, (row i) . e = x2[i]^T * M * x1[i]; *)
(* A has one such row for each of the N correspondences and no other.      *)
C10_RowLayoutMatchesReshape ==
    (op = "solve" /\ status = "returned" /\ ReadsDefined(argX1, argX2))
        => /\ Len(A) = Cols(argX1)
           /\ \A i \in 0..(Cols(argX1) - 1) :
                /\ Len(A[i + 1]) = 9
                /\ \A r \in 0..2, c \in 0..2 :
                      A[i + 1][3 * r + c + 1] = El(argX2, r, i) * El(argX1, c, i)
                /\ \A e \in Vec9s :
                      Dot9(A[i + 1], e) = Bilinear(argX2[i + 1], MapRMat3(e), argX1[i + 1])

C10_Witness ==
    /\ op = "solve"
    /\ status = "returned"
    /\ ReadsDefined(argX1, argX2)
    /\ Len(A) > MinSamples
    /\ \E i \in 1..Len(A) : \E k \in 1..9 : A[i][k] # A[i][((3 * ((k - 1) % 3)) + ((k - 1) \div 3)) + 1]

----------------------------------------------------------------------------
(* Properties of the kernel, checked under SpecKernel *)

(* the columns of m at the indices of the list S, in the order of S *)
Gather(m, S) == [k \in 1..Len(S) |-> m[S[k] + 1]]

(* C1: the matrices fit hands to solve hold exactly the correspondences    *)
(* at the sample's indices, column k being the pair at the k-th index.     *)
C1_FitHandsSampleToSolver ==
    (op = "fit" /\ status = "returned" /\ FitAsserts)
        => argX1 = Gather(_x1, sample) /\ argX2 = Gather(_x2, sample)

(* C5: a fit whose sample has fewer than getMinimumNbRequiredSamples       *)
(* indices is rejected and produces no model, also when the kernel holds   *)
(* 8 or more correspondences.                                              *)
C5_FitRejectsShortSample ==
    (op = "fit" /\ FitAsserts /\ Len(sample) < getMinimumNbRequiredSamples)
        => status # "returned" /\ models = before

----------------------------------------------------------------------------
(* Properties of the kernel under concurrent calls, checked under SpecConc *)

(* the models a fit running alone on the stored matrices may emit *)
FitAloneModels ==
    LET A1 == encodeEpipolarEquation(_x1, _x2, NewMatX9(Cols(_x1)))
    IN  UNION {IF Cols(_x1) > MinSamples
               THEN {ClosestEssential(s) : s \in JacobiSVD(MapRMat3(e))}
               ELSE {MapRMat3(e)} : e \in Nullspace(A1)}

CallsAsAlone ==
    \A t \in Threads :
        thr[t].pc = "done" =>
            IF thr[t].op = "fit"
            THEN /\ Len(thr[t].out) = 1
                 /\ thr[t].out[1] \in FitAloneModels
            ELSE thr[t].result =
                    AngularErrorOf(thr[t].model, _x1[thr[t].index + 1], _x2[thr[t].index + 1])

(* C7: in every interleaving of fit and residual calls of several threads  *)
(* on one kernel, no step changes the stored matrices _x1 and _x2, and     *)
(* each finished call has the result it has when run alone.                *)
C7_CallsLeaveKernelUntouched ==
    /\ [][_x1' = _x1 /\ _x2' = _x2]_vars
    /\ []CallsAsAlone

C7_Witness ==
    \E t \in Threads, u \in Threads :
        /\ thr[t].pc = "done" /\ thr[t].op = "fit"
        /\ thr[t].sample[1] # 0
        /\ thr[u].pc = "done" /\ thr[u].op = "error"
        /\ thr[u].index # 0
        /\ thr[u].result[1] # 0

----------------------------------------------------------------------------
(* Properties of TriangulateDLT, checked under SpecTri *)

(* [x]_x, the matrix of the cross product with x *)
CrossMat(x) ==
    << <<0, -x[3], x[2]>>,
       <<x[3], 0, -x[1]>>,
       <<-x[2], x[1], 0>> >>

(* row k of [x]_x * P *)
CrossRow(x, P, k) ==
    [i \in 1..4 |->
        CrossMat(x)[k][1] * P[1][i] + CrossMat(x)[k][2] * P[2][i] + CrossMat(x)[k][3] * P[3][i]]

(* C9, as stated: each constraint contributes only its two independent     *)
(* rows, and every row present is the corresponding row of [x]_x * P.      *)
C9_TwoRowsPerConstraint ==
    tri.overload # "none" =>
        /\ Len(tri.design) = 4
        /\ \A k \in 1..2 :
              /\ tri.design[k] = CrossRow(tri.x1, tri.P1, k)
              /\ tri.design[k + 2] = CrossRow(tri.x2, tri.P2, k)

(* C9, amended: each constraint contributes all three rows of [x]_x * P,   *)
(* the redundant third included: the design has the six rows               *)
(* [x1]_x * P1 over [x2]_x * P2.                                           *)
C9_ThreeRowsPerConstraint ==
    tri.overload # "none" =>
        /\ Len(tri.design) = 6
        /\ \A k \in 1..3 :
              /\ tri.design[k] = CrossRow(tri.x1, tri.P1, k)
              /\ tri.design[k + 3] = CrossRow(tri.x2, tri.P2, k)

C9_Witness ==
    /\ tri.overload # "none"
    /\ Len(tri.design) = 6
    /\ \E i \in 1..4 : tri.design[3][i] # 0
    /\ \E i \in 1..4 : tri.design[6][i] # 0
    /\ tri.x2 # tri.x1

====
